---- MODULE Spec2Model ----
(***************************************************************************)
(* Project management REST API: validator, service, repository and the     *)
(* controller boundary, over one "projects" collection of a document       *)
(* store.  Every handler is an async function; it is modelled by one       *)
(* action per synchronous segment: the segment that starts the request and *)
(* runs to the first store call, and one segment per store call, which     *)
(* applies the call to the collection and runs the continuation up to the  *)
(* next store call or to the response.                                     *)
(*                                                                         *)
(* Strings whose characters matter (names, ids, sort tokens, statuses,     *)
(* query values) are sequences of one-character strings.  Titles and        *)
(* messages are never taken apart and stay TLA+ strings.                   *)
(***************************************************************************)
EXTENDS Integers, Sequences, FiniteSets, TLC

\* ---------------------------------------------------------------- bounds
\* the wall clock (milliseconds) runs from 0 to MaxClock
MaxClock == 1
\* the store hands out at most MaxProjects identifiers
MaxProjects == 2
\* at most MaxClients MongoClient objects are constructed
MaxClients == 3
\* a listed collection holds at most MaxListDocs documents
MaxListDocs == 3

\* ------------------------------------------------------- JavaScript values
Undefined == [t |-> "undefined", s |-> <<>>, n |-> 0]
Null == [t |-> "null", s |-> <<>>, n |-> 0]
Str(chars) == [t |-> "string", s |-> chars, n |-> 0]
Num(k) == [t |-> "number", s |-> <<>>, n |-> k]
NaN == [t |-> "NaN", s |-> <<>>, n |-> 0]
DateOf(ms) == [t |-> "date", s |-> <<>>, n |-> ms]
InvalidDate == [t |-> "invalid_date", s |-> <<>>, n |-> 0]

\* JavaScript truthiness, as used by `!x` and `x || d`
Truthy(v) ==
    CASE v.t = "undefined" -> FALSE
      [] v.t = "null" -> FALSE
      [] v.t = "NaN" -> FALSE
      [] v.t = "string" -> v.s # <<>>
      [] v.t = "number" -> v.n # 0
      [] OTHER -> TRUE

Digits == <<"0", "1", "2", "3", "4", "5", "6", "7", "8", "9">>
IsDigit(c) == \E i \in 1..Len(Digits) : Digits[i] = c
DigitVal(c) == (CHOOSE i \in 1..Len(Digits) : Digits[i] = c) - 1

RECURSIVE DecimalValue(_)
DecimalValue(chars) ==
    IF chars = <<>> THEN 0
    ELSE 10 * DecimalValue(SubSeq(chars, 1, Len(chars) - 1)) + DigitVal(chars[Len(chars)])

AllDigits(chars) == chars # <<>> /\ \A i \in 1..Len(chars) : IsDigit(chars[i])

TrimNone(chars) == chars

\* String.prototype.trim
RECURSIVE TrimStart(_)
TrimStart(chars) ==
    IF chars # <<>> /\ Head(chars) = " " THEN TrimStart(Tail(chars)) ELSE chars

RECURSIVE TrimEnd(_)
TrimEnd(chars) ==
    IF chars # <<>> /\ chars[Len(chars)] = " "
    THEN TrimEnd(SubSeq(chars, 1, Len(chars) - 1))
    ELSE chars

Trim(chars) == TrimEnd(TrimStart(chars))

\* Number(x) of a query-string value: absent and non-numeric text give NaN
\* (the empty string gives 0)
ToNumber(v) ==
    CASE v.t = "number" -> v
      [] v.t = "string" /\ Trim(v.s) = <<>> -> Num(0)
      [] v.t = "string" /\ AllDigits(Trim(v.s)) -> Num(DecimalValue(Trim(v.s)))
      [] v.t = "string" /\ Len(Trim(v.s)) > 1 /\ Head(Trim(v.s)) = "-"
            /\ AllDigits(Tail(Trim(v.s))) -> Num(0 - DecimalValue(Tail(Trim(v.s))))
      [] v.t = "null" -> Num(0)
      [] OTHER -> NaN

\* new Date(x): a timestamp is written as a decimal number of milliseconds,
\* standing for a date string that parses to it
NewDate(v) ==
    CASE v.t = "string" /\ AllDigits(v.s) -> DateOf(DecimalValue(v.s))
      [] v.t = "number" -> DateOf(v.n)
      [] v.t = "null" -> DateOf(0)
      [] v.t = "date" -> v
      [] OTHER -> InvalidDate

IsNaNTimeNever(d) == FALSE

\* isNaN(d.getTime())
IsNaNTime(d) == d.t # "date"

DateBeforeFlipped(a, b) == b.n < a.n

\* a < b on two valid dates
DateBefore(a, b) == a.n < b.n

\* ------------------------------------------------------------- the model
active == <<"a", "c", "t", "i", "v", "e">>
on_hold == <<"o", "n", "_", "h", "o", "l", "d">>
completed == <<"c", "o", "m", "p", "l", "e", "t", "e", "d">>

STATUS_TYPE == {active, on_hold, completed}

\* ---------------------------------------------------------------- errors
ThrowError(statusCode, title, message) ==
    [code |-> statusCode, title |-> title, message |-> message]

NoError == ThrowError(0, "", "")

\* ------------------------------------------------------------- validator
NoBody ==
    [clientName |-> <<>>, name |-> <<>>, description |-> Undefined,
     status |-> Undefined, startDate |-> Undefined, endDate |-> Undefined,
     createdAt |-> Undefined, updatedAt |-> Undefined]

VALIDATION_STATUS_CODE == 400
VALIDATION_TITLE == "VALIDATION_ERROR"
ALLOWED_STATUSES == <<active, on_hold, completed>>

IncludesAnyString(list, v) == v.t = "string"

\* Array.prototype.includes on a list of strings
Includes(list, v) == v.t = "string" /\ \E i \in 1..Len(list) : list[i] = v.s

Rejected(err) == [ok |-> FALSE, error |-> err, body |-> NoBody]
Accepted(body) == [ok |-> TRUE, error |-> NoError, body |-> body]

\* ProjectValidator.createProject(data), called when the clock shows `clock`
ValidatorCreateProject(data, clock) ==
    IF ~Truthy(data.clientName) \/ data.clientName.t # "string"
          \/ Trim(data.clientName.s) = <<>>
    THEN Rejected(ThrowError(VALIDATION_STATUS_CODE, VALIDATION_TITLE,
                             "Client name is required"))
    ELSE IF ~Truthy(data.name) \/ data.name.t # "string" \/ Trim(data.name.s) = <<>>
    THEN Rejected(ThrowError(VALIDATION_STATUS_CODE, VALIDATION_TITLE,
                             "Project name is required"))
    ELSE IF data.description # Undefined
            /\ (data.description.t # "string" \/ Trim(data.description.s) = <<>>)
    THEN Rejected(ThrowError(VALIDATION_STATUS_CODE, VALIDATION_TITLE,
                             "Description must be a non-empty string if provided"))
    ELSE IF ~Truthy(data.status) \/ ~Includes(ALLOWED_STATUSES, data.status)
    THEN Rejected(ThrowError(VALIDATION_STATUS_CODE, VALIDATION_TITLE,
                             "Invalid or missing project status"))
    ELSE IF ~Truthy(data.startDate)
    THEN Rejected(ThrowError(VALIDATION_STATUS_CODE, VALIDATION_TITLE,
                             "Start date is required"))
    ELSE IF IsNaNTime(NewDate(data.startDate))
    THEN Rejected(ThrowError(VALIDATION_STATUS_CODE, VALIDATION_TITLE,
                             "Start date must be a valid ISO date"))
    ELSE IF data.endDate # Undefined /\ IsNaNTime(NewDate(data.endDate))
    THEN Rejected(ThrowError(VALIDATION_STATUS_CODE, VALIDATION_TITLE,
                             "End date must be a valid ISO date"))
    ELSE IF data.endDate # Undefined
            /\ DateBefore(NewDate(data.endDate), NewDate(data.startDate))
    THEN Rejected(ThrowError(VALIDATION_STATUS_CODE, VALIDATION_TITLE,
                             "End date cannot be before start date"))
    ELSE Accepted(
        [clientName |-> Trim(data.clientName.s),
         name |-> Trim(data.name.s),
         description |-> IF data.description # Undefined
                         THEN Str(Trim(data.description.s)) ELSE Undefined,
         status |-> data.status,
         startDate |-> NewDate(data.startDate),
         endDate |-> IF data.endDate # Undefined
                     THEN NewDate(data.endDate) ELSE Undefined,
         createdAt |-> DateOf(clock),
         updatedAt |-> Undefined])

\* ------------------------------------------------------------ identifiers
HexLower == <<"a", "b", "c", "d", "e", "f">>
HexUpper == <<"A", "B", "C", "D", "E", "F">>
IsHex(c) ==
    \/ IsDigit(c)
    \/ \E i \in 1..Len(HexLower) : HexLower[i] = c \/ HexUpper[i] = c

ObjectIdIsValidLengthOnly(chars) == Len(chars) = 24

\* ObjectId.isValid(id) of a string: 24 hexadecimal characters
ObjectIdIsValid(chars) == Len(chars) = 24 /\ \A i \in 1..24 : IsHex(chars[i])

\* new ObjectId(id).toString(): the twelve bytes, written in lower case
HexToLower(c) ==
    IF \E i \in 1..Len(HexUpper) : HexUpper[i] = c
    THEN HexLower[CHOOSE i \in 1..Len(HexUpper) : HexUpper[i] = c]
    ELSE c

NewObjectId(chars) == [i \in 1..Len(chars) |-> HexToLower(chars[i])]

NewObjectIdNeverThrows(chars) == FALSE

\* new ObjectId(id) of a string throws unless it is 24 hexadecimal characters
NewObjectIdThrows(chars) ==
    Len(chars) # 24 \/ \E i \in 1..Len(chars) : ~IsHex(chars[i])

\* the k-th identifier the driver generates on insert
GeneratedId(k) == [i \in 1..24 |-> IF i = 24 THEN HexLower[k] ELSE "0"]

\* ------------------------------------------------------------ repository
\* the documents of the "projects" collection: _id -> document
NoDoc == NoBody

\* collection.insertOne(data)
InsertOne(coll, oid, doc) == [i \in DOMAIN coll \cup {oid} |-> IF i = oid THEN doc ELSE coll[i]]

Lower(c) ==
    CASE c = "X" -> "x" [] c = "Y" -> "y" [] OTHER -> HexToLower(c)

LowerAll(chars) == [i \in 1..Len(chars) |-> Lower(chars[i])]

\* { $regex: search, $options: "i" } for a search text without metacharacters
RegexMatch(text, search) ==
    \E i \in 0..(Len(text) - Len(search)) :
        LowerAll(SubSeq(text, i + 1, i + Len(search))) = LowerAll(search)

\* the filter object the service builds: absent keys are Undefined
Matches(doc, filter) ==
    /\ filter.status # Undefined => doc.status = filter.status
    /\ filter.search # Undefined =>
          \/ RegexMatch(doc.name, filter.search.s)
          \/ RegexMatch(doc.clientName, filter.search.s)

Matching(coll, filter) == {i \in DOMAIN coll : Matches(coll[i], filter)}

SortKey(doc, field) ==
    IF field = <<"s", "t", "a", "r", "t", "D", "a", "t", "e">>
    THEN doc.startDate.n
    ELSE doc.createdAt.n

\* the orders find(filter).sort(sortOption) may return: documents with equal
\* keys come in any order
IsSorted(coll, ids, sortOption) ==
    \A i \in 1..Len(ids) : \A j \in 1..Len(ids) :
        i < j =>
            IF sortOption.order = 1
            THEN SortKey(coll[ids[i]], sortOption.field) <= SortKey(coll[ids[j]], sortOption.field)
            ELSE SortKey(coll[ids[i]], sortOption.field) >= SortKey(coll[ids[j]], sortOption.field)

SortedOrders(coll, filter, sortOption) ==
    LET m == Matching(coll, filter)
    IN {ids \in [1..Cardinality(m) -> m] :
            /\ \A i \in 1..Len(ids) : \A j \in 1..Len(ids) : i # j => ids[i] # ids[j]
            /\ IsSorted(coll, ids, sortOption)}

Abs(k) == IF k < 0 THEN 0 - k ELSE k
Min(a, b) == IF a < b THEN a ELSE b

\* cursor.skip(skip).limit(limit): a negative limit is sent as its absolute
\* value, limit 0 is no limit
SkipLimit(ids, skip, limit) ==
    LET from == Min(skip, Len(ids)) + 1
        upto == IF limit = 0 THEN Len(ids) ELSE Min(Len(ids), skip + Abs(limit))
    IN SubSeq(ids, from, upto)

\* ProjectRepository.listProjects maps each raw document to a list item
ProjectListItem(oid, doc) ==
    [id |-> oid, name |-> doc.name, clientName |-> doc.clientName,
     status |-> doc.status, startDate |-> doc.startDate, endDate |-> doc.endDate,
     createdAt |-> doc.createdAt]

\* ProjectRepository.getProjectDataById(id): the details, or Null
GetProjectDataById(coll, id) ==
    IF NewObjectId(id) \in DOMAIN coll
    THEN [found |-> TRUE, id |-> NewObjectId(id), doc |-> coll[NewObjectId(id)]]
    ELSE [found |-> FALSE, id |-> <<>>, doc |-> NoDoc]

GetProjectExistanceByIdAlways(coll, id) == ObjectIdIsValid(id)

\* ProjectRepository.getProjectExistanceById(id)
GetProjectExistanceById(coll, id) ==
    IF ~ObjectIdIsValid(id) THEN FALSE
    ELSE Cardinality({i \in DOMAIN coll : i = NewObjectId(id)}) > 0

\* collection.deleteOne({_id}): the new collection and deletedCount
DeleteOne(coll, oid) ==
    IF oid \in DOMAIN coll
    THEN [coll |-> [i \in DOMAIN coll \ {oid} |-> coll[i]], deletedCount |-> 1]
    ELSE [coll |-> coll, deletedCount |-> 0]

UpdateOneReplace(coll, oid, status, updatedAt) ==
    IF oid \in DOMAIN coll
    THEN LET doc == [NoDoc EXCEPT !.status = status, !.updatedAt = updatedAt]
         IN [coll |-> [coll EXCEPT ![oid] = doc],
             matchedCount |-> 1,
             modifiedCount |-> IF doc = coll[oid] THEN 0 ELSE 1]
    ELSE [coll |-> coll, matchedCount |-> 0, modifiedCount |-> 0]

\* collection.updateOne({_id}, {$set: {status, updatedAt}}): modifiedCount
\* counts the documents the update changed, so a $set of the values a
\* document already has matches it and modifies nothing
UpdateOne(coll, oid, status, updatedAt) ==
    IF oid \in DOMAIN coll
    THEN LET doc == [coll[oid] EXCEPT !.status = status, !.updatedAt = updatedAt]
         IN [coll |-> [coll EXCEPT ![oid] = doc],
             matchedCount |-> 1,
             modifiedCount |-> IF doc = coll[oid] THEN 0 ELSE 1]
    ELSE [coll |-> coll, matchedCount |-> 0, modifiedCount |-> 0]

\* ----------------------------------------------------------------- state
VARIABLES
    now,            \* the wall clock new Date() reads, in milliseconds
    projects,       \* the "projects" collection: _id -> document
    nextId,         \* how many identifiers the driver has generated, plus one
    req,            \* the request each handler slot is serving
    last,           \* the response the latest step sent, with its request
    inFlightLimit,  \* how many requests the clients keep in flight at once
    database,       \* the Database class: its statics and the calls made on it
    direct          \* a function called on its own: its arguments and result

vars == <<now, projects, nextId, req, last, inFlightLimit, database, direct>>

Slots == {1, 2}

NoPayload ==
    [clientName |-> Undefined, name |-> Undefined, description |-> Undefined,
     status |-> Undefined, startDate |-> Undefined, endDate |-> Undefined]

NoQuery ==
    [page |-> Undefined, limit |-> Undefined, status |-> Undefined,
     search |-> Undefined, sort |-> Undefined]

NoFilter == [status |-> Undefined, search |-> Undefined]
NoSort == [field |-> <<>>, order |-> 0]

\* a handler slot: the request's inputs, the locals that live across an
\* await, the store call it is waiting for (pc), and two counters kept for
\* the properties: the store calls made and whether one changed the collection
IdleReq ==
    [op |-> "none", pc |-> "idle", id |-> <<>>, payload |-> NoPayload,
     body |-> NoBody, status |-> Undefined, query |-> NoQuery,
     page |-> 0, limit |-> 0, skip |-> 0, filter |-> NoFilter,
     sortOption |-> NoSort, items |-> <<>>, updatedAt |-> Undefined,
     calls |-> 0, wrote |-> FALSE]

NoPagination == [total |-> 0, page |-> 0, limit |-> 0, totalPages |-> 0]
NoData == [kind |-> "undefined", id |-> <<>>, doc |-> NoDoc, items |-> <<>>,
           pagination |-> NoPagination]

\* response.handler: the envelope {code, title, message, data}
sendSuccess(code, title, message, data) ==
    [code |-> code, title |-> title, message |-> message, data |-> data]

sendError(code, title, message) ==
    [code |-> code, title |-> title, message |-> message, data |-> NoData]

\* the controllers' catch block for a ThrowError
sendThrown(err) == sendError(err.code, err.title, err.message)

NoResponse == [req |-> IdleReq, code |-> 0, title |-> "", message |-> "", data |-> NoData]

Idle(s) == req[s].pc = "idle"
Busy == {s \in Slots : ~Idle(s)}

\* a request is taken by the lowest free slot while the clients may send one
Free(s) ==
    /\ Idle(s)
    /\ \A r \in Slots : r < s => ~Idle(r)
    /\ Cardinality(Busy) < inFlightLimit

\* the handler of slot s sends its response and ends
Respond(s, r, envelope) ==
    /\ last' = [req |-> r, code |-> envelope.code, title |-> envelope.title,
                message |-> envelope.message, data |-> envelope.data]
    /\ req' = [req EXCEPT ![s] = IdleReq]

\* the handler of slot s awaits its next store call
Await(s, r) ==
    /\ req' = [req EXCEPT ![s] = r]
    /\ last' = NoResponse

\* -------------------------------------------------------------- Database
Callers == {1, 2}

NoHandle == [client |-> 0, n |-> 0]
NoCall == [op |-> "none", by |-> 0, outcome |-> "", handle |-> NoHandle]

\* the statics db and client (client 0 is undefined, clients are numbered as
\* they are constructed), the clients constructed, connected and closed, the
\* Db handles made, each caller's connect() in progress with the client it
\* awaits, and the last call that returned or threw
NewDatabase ==
    [db |-> NoHandle, client |-> 0, created |-> 0, connected |-> {}, closed |-> {},
     handles |-> 0, awaiting |-> [c \in Callers |-> 0], lastCall |-> NoCall]

\* startServer has awaited Database.connect() and the server is listening
ConnectedDatabase ==
    [NewDatabase EXCEPT !.db = [client |-> 1, n |-> 1], !.client = 1, !.created = 1,
                        !.connected = {1}, !.handles = 1,
                        !.lastCall = [op |-> "connect", by |-> 1, outcome |-> "connected",
                                      handle |-> [client |-> 1, n |-> 1]]]

DbSetNever(d) == FALSE

\* if (this.db)
DbSet(d) == d.db # NoHandle

\* Database.connect() up to await this.client.connect()
ConnectStart(c) ==
    /\ database.awaiting[c] = 0
    /\ IF DbSet(database)
       THEN database' = [database EXCEPT
               !.lastCall = [op |-> "connect", by |-> c, outcome |-> "noop",
                             handle |-> database.db]]
       ELSE /\ database.created < MaxClients
            /\ database' = [database EXCEPT
                  !.created = @ + 1, !.client = database.created + 1,
                  !.awaiting[c] = database.created + 1]
    /\ UNCHANGED <<now, projects, nextId, req, last, inFlightLimit, direct>>

\* the awaited client connects: this.db = this.client.db(DB_NAME)
ConnectResolve(c) ==
    LET handle == [client |-> database.client, n |-> database.handles + 1]
    IN /\ database.awaiting[c] # 0
       /\ database' = [database EXCEPT
              !.connected = @ \cup {database.awaiting[c]},
              !.db = handle, !.handles = @ + 1, !.awaiting[c] = 0,
              !.lastCall = [op |-> "connect", by |-> c, outcome |-> "connected",
                            handle |-> handle]]
       /\ UNCHANGED <<now, projects, nextId, req, last, inFlightLimit, direct>>

\* the awaited client fails to connect: connect() rejects
ConnectReject(c) ==
    /\ database.awaiting[c] # 0
    /\ database' = [database EXCEPT
           !.awaiting[c] = 0,
           !.lastCall = [op |-> "connect", by |-> c, outcome |-> "failed",
                         handle |-> NoHandle]]
    /\ UNCHANGED <<now, projects, nextId, req, last, inFlightLimit, direct>>

\* Database.getDB()
GetDB(c) ==
    /\ IF ~DbSet(database)
       THEN database' = [database EXCEPT
               !.lastCall = [op |-> "getDB", by |-> c, outcome |-> "threw",
                             handle |-> NoHandle]]
       ELSE database' = [database EXCEPT
               !.lastCall = [op |-> "getDB", by |-> c, outcome |-> "returned",
                             handle |-> database.db]]
    /\ UNCHANGED <<now, projects, nextId, req, last, inFlightLimit, direct>>

\* Database.close()
Close(c) ==
    /\ IF database.client # 0
       THEN database' = [database EXCEPT
               !.closed = @ \cup {database.client},
               !.lastCall = [op |-> "close", by |-> c, outcome |-> "closed",
                             handle |-> NoHandle]]
       ELSE database' = [database EXCEPT
               !.lastCall = [op |-> "close", by |-> c, outcome |-> "noop",
                             handle |-> NoHandle]]
    /\ UNCHANGED <<now, projects, nextId, req, last, inFlightLimit, direct>>

\* --------------------------------------------- functions called on their own
NoDirect ==
    [fn |-> "none", done |-> FALSE, id |-> <<>>, status |-> Undefined,
     payload |-> NoPayload, threw |-> FALSE, ok |-> FALSE, error |-> NoError,
     body |-> NoBody]

\* ------------------------------------------------------------ the inputs
PayloadA ==
    [clientName |-> Str(<<" ", "x">>), name |-> Str(<<"x", " ">>),
     description |-> Undefined, status |-> Str(active),
     startDate |-> Str(<<"1">>), endDate |-> Undefined]

PayloadB ==
    [clientName |-> Str(<<"y">>), name |-> Str(<<"x">>),
     description |-> Str(<<" ", "d">>), status |-> Str(on_hold),
     startDate |-> Str(<<"2">>), endDate |-> Str(<<"2">>)]

ClientNameInputs == {Undefined, Num(5), Str(<<>>), Str(<<" ">>)}
NameInputs == {Undefined, Num(5), Str(<<" ", " ">>)}
DescriptionInputs == {Null, Str(<<" ">>)}
StatusInputs ==
    {Undefined, Str(<<>>), Num(1), Str(<<"d", "o", "n", "e">>), Str(completed)}
StartDateInputs == {Undefined, Str(<<>>), Str(<<"x">>)}
EndDateInputs == {Null, Str(<<>>), Str(<<"x">>)}

\* the request bodies the clients send to POST /api/projects
Payloads ==
    {PayloadA, PayloadB}
    \cup {[PayloadA EXCEPT !.clientName = v] : v \in ClientNameInputs}
    \cup {[PayloadA EXCEPT !.name = v] : v \in NameInputs}
    \cup {[PayloadA EXCEPT !.description = v] : v \in DescriptionInputs}
    \cup {[PayloadA EXCEPT !.status = v] : v \in StatusInputs}
    \cup {[PayloadA EXCEPT !.startDate = v] : v \in StartDateInputs}
    \cup {[PayloadB EXCEPT !.endDate = v] : v \in EndDateInputs \cup {Str(<<"1">>)}}

\* the :id path parameters the clients send: the empty string, a token of 23
\* characters, a token of 24 characters that are not all hexadecimal, every
\* identifier the store may hand out and one more, and the first identifier
\* written in upper case
IdInputs ==
    {<<>>,
     [i \in 1..23 |-> "0"],
     [i \in 1..24 |-> IF i = 24 THEN "g" ELSE "0"],
     [i \in 1..24 |-> IF i = 24 THEN "A" ELSE "0"]}
    \cup {GeneratedId(k) : k \in 1..(MaxProjects + 1)}

\* the statuses the clients send to PATCH /api/projects/:id/status
UpdateStatusInputs ==
    {Undefined, Str(<<"d", "o", "n", "e">>), Str(active), Str(on_hold), Str(completed)}

createdAt == <<"c", "r", "e", "a", "t", "e", "d", "A", "t">>
startDate == <<"s", "t", "a", "r", "t", "D", "a", "t", "e">>

PageInputs ==
    {Undefined, Str(<<"a", "b", "c">>), Str(<<"0">>), Str(<<"-", "1">>),
     Str(<<"1">>), Str(<<"2">>), Str(<<"3">>)}
LimitInputs == PageInputs
SortInputs ==
    {Undefined, Str(<<>>), Str(<<"-">>), Str(createdAt), Str(<<"-">> \o createdAt),
     Str(startDate), Str(<<"-">> \o startDate), Str(<<"n", "a", "m", "e">>),
     Str(<<"-", "n", "a", "m", "e">>),
     Str(<<"c", "r", "e", "a", "t", "e", "d", "-", "A", "t">>),
     Str(startDate \o <<"-">>), Str(<<"-", "-">> \o createdAt)}
SearchInputs == {Undefined, Str(<<"X">>), Str(<<"y">>), Str(<<"z">>)}

\* the query strings the clients send to GET /api/projects
Queries ==
    {[NoQuery EXCEPT !.page = p, !.limit = l, !.status = st] :
        p \in PageInputs, l \in LimitInputs, st \in {Undefined, Str(on_hold)}}
    \cup {[NoQuery EXCEPT !.sort = so, !.page = p, !.limit = l, !.status = st, !.search = se] :
        so \in SortInputs, p \in {Undefined, Str(<<"2">>)}, l \in {Str(<<"1">>)},
        st \in {Undefined, Str(on_hold)}, se \in {Undefined, Str(<<"y">>)}}
    \cup {[NoQuery EXCEPT !.search = se] : se \in SearchInputs}

\* ------------------------------------------------------- POST /api/projects
\* ProjectController.createProject and ProjectService.createProject up to
\* the insertOne call: the validator runs first and throws before any store
\* call is made
CreateProjectStart(s, data) ==
    LET v == ValidatorCreateProject(data, now)
        r == [IdleReq EXCEPT !.op = "create", !.payload = data, !.body = v.body]
    IN /\ Free(s)
       /\ \/ /\ ~v.ok
             /\ Respond(s, r, sendThrown(v.error))
          \/ /\ v.ok
             /\ nextId + Cardinality({q \in Slots : req[q].pc = "insertOne"}) <= MaxProjects
             /\ Await(s, [r EXCEPT !.pc = "insertOne", !.calls = 1])
       /\ UNCHANGED <<now, projects, nextId, inFlightLimit, database, direct>>

\* ProjectRepository.createProject: insertOne stores the document under a
\* fresh identifier; the service then checks result._id
CreateProjectInsert(s) ==
    LET oid == GeneratedId(nextId)
        r == [req[s] EXCEPT !.wrote = TRUE]
        result == [NoData EXCEPT !.kind = "project", !.id = oid, !.doc = req[s].body]
    IN /\ req[s].pc = "insertOne"
       /\ projects' = InsertOne(projects, oid, req[s].body)
       /\ nextId' = nextId + 1
       /\ IF ~Truthy(Str(result.id))
          THEN Respond(s, r, sendThrown(ThrowError(500, "FAILURE", "Failed to create project")))
          ELSE Respond(s, r, sendSuccess(201, "SUCCESS", "Project created successfully", result))
       /\ UNCHANGED <<now, inFlightLimit, database, direct>>

\* ---------------------------------------------------- GET /api/projects/:id
\* ProjectController.projectDetailsById and ProjectService.projectDeatilsById
\* up to the findOne call
ProjectDetailsByIdStart(s, id) ==
    LET r == [IdleReq EXCEPT !.op = "details", !.id = id]
    IN /\ Free(s)
       /\ IF ~Truthy(Str(id))
          THEN Respond(s, r, sendError(400, "VALIDATION_ERROR", "Id is required"))
          ELSE IF ~ObjectIdIsValid(id)
          THEN Respond(s, r, sendThrown(ThrowError(400, "VALIDTION_ERROR", "Invalid id")))
          ELSE Await(s, [r EXCEPT !.pc = "findOne", !.calls = 1])
       /\ UNCHANGED <<now, projects, nextId, inFlightLimit, database, direct>>

\* ProjectRepository.getProjectDataById answers; the service throws 404 on null
ProjectDetailsFindOne(s) ==
    LET data == GetProjectDataById(projects, req[s].id)
    IN /\ req[s].pc = "findOne"
       /\ IF ~data.found
          THEN Respond(s, req[s], sendThrown(ThrowError(404, "NOT_FOUND", "Project not found")))
          ELSE Respond(s, req[s],
                       sendSuccess(200, "Project Details", "Data fetched succesfully",
                                   [NoData EXCEPT !.kind = "details", !.id = data.id,
                                                  !.doc = data.doc]))
       /\ UNCHANGED <<now, projects, nextId, inFlightLimit, database, direct>>

\* ------------------------------------------------- DELETE /api/projects/:id
\* ProjectController.removeProjectById and ProjectService.removeProjectById
\* up to the existence check
RemoveProjectByIdStart(s, id) ==
    LET r == [IdleReq EXCEPT !.op = "remove", !.id = id]
    IN /\ Free(s)
       /\ IF ~Truthy(Str(id))
          THEN Respond(s, r, sendError(400, "VALIDATION_ERROR", "Id is required"))
          ELSE IF ~ObjectIdIsValid(id)
          THEN Respond(s, r, sendThrown(ThrowError(400, "VALIDTION_ERROR", "Invalid id")))
          ELSE Await(s, [r EXCEPT !.pc = "removeExists", !.calls = 1])
       /\ UNCHANGED <<now, projects, nextId, inFlightLimit, database, direct>>

\* getProjectExistanceById answers; the service throws 404 or calls deleteOne
RemoveProjectExists(s) ==
    /\ req[s].pc = "removeExists"
    /\ IF ~GetProjectExistanceById(projects, req[s].id)
       THEN Respond(s, req[s], sendThrown(ThrowError(404, "NOT_FOUND", "Project not found")))
       ELSE Await(s, [req[s] EXCEPT !.pc = "deleteOne", !.calls = @ + 1])
    /\ UNCHANGED <<now, projects, nextId, inFlightLimit, database, direct>>

\* ProjectRepository.deleteProjectById answers deletedCount === 1
RemoveProjectDelete(s) ==
    LET res == DeleteOne(projects, NewObjectId(req[s].id))
        r == [req[s] EXCEPT !.wrote = (res.coll # projects)]
    IN /\ req[s].pc = "deleteOne"
       /\ projects' = res.coll
       /\ IF ~(res.deletedCount = 1)
          THEN Respond(s, r, sendThrown(ThrowError(500, "FAILURE", "Failed to delete project")))
          ELSE Respond(s, r, sendSuccess(200, "Project Deletion Process",
                                         "Project deleted successfully", NoData))
       /\ UNCHANGED <<now, nextId, inFlightLimit, database, direct>>

\* ------------------------------------------- PATCH /api/projects/:id/status
UpdateProjectStatusByIdStartStatusFirst(s, id, status) ==
    LET r == [IdleReq EXCEPT !.op = "update", !.id = id, !.status = status]
    IN /\ Free(s)
       /\ IF ~Truthy(Str(id))
          THEN Respond(s, r, sendError(400, "VALIDATION_ERROR", "Id is required"))
          ELSE IF ~Truthy(status) \/ ~Includes(ALLOWED_STATUSES, status)
          THEN Respond(s, r, sendThrown(ThrowError(400, "VALIDATION_ERROR",
                                                   "Invalid or missing project status")))
          ELSE IF ~ObjectIdIsValid(id)
          THEN Respond(s, r, sendThrown(ThrowError(400, "VALIDTION_ERROR", "Invalid id")))
          ELSE Await(s, [r EXCEPT !.pc = "updateExists", !.calls = 1])
       /\ UNCHANGED <<now, projects, nextId, inFlightLimit, database, direct>>

\* ProjectController.updateProjectStatusById and
\* ProjectService.updateProjectStatusById up to the existence check
UpdateProjectStatusByIdStart(s, id, status) ==
    LET r == [IdleReq EXCEPT !.op = "update", !.id = id, !.status = status]
    IN /\ Free(s)
       /\ IF ~Truthy(Str(id))
          THEN Respond(s, r, sendError(400, "VALIDATION_ERROR", "Id is required"))
          ELSE IF ~ObjectIdIsValid(id)
          THEN Respond(s, r, sendThrown(ThrowError(400, "VALIDTION_ERROR", "Invalid id")))
          ELSE IF ~Truthy(status) \/ ~Includes(ALLOWED_STATUSES, status)
          THEN Respond(s, r, sendThrown(ThrowError(400, "VALIDATION_ERROR",
                                                   "Invalid or missing project status")))
          ELSE Await(s, [r EXCEPT !.pc = "updateExists", !.calls = 1])
       /\ UNCHANGED <<now, projects, nextId, inFlightLimit, database, direct>>

\* getProjectExistanceById answers; the service throws 404 or calls
\* updateOne with updatedAt: new Date()
UpdateProjectStatusExists(s) ==
    /\ req[s].pc = "updateExists"
    /\ IF ~GetProjectExistanceById(projects, req[s].id)
       THEN Respond(s, req[s], sendThrown(ThrowError(404, "NOT_FOUND", "Project not found")))
       ELSE Await(s, [req[s] EXCEPT !.pc = "updateOne", !.calls = @ + 1,
                                    !.updatedAt = DateOf(now)])
    /\ UNCHANGED <<now, projects, nextId, inFlightLimit, database, direct>>

\* ProjectRepository.updateProjectStatusById answers modifiedCount === 1
UpdateProjectStatusUpdate(s) ==
    LET res == UpdateOne(projects, NewObjectId(req[s].id), req[s].status, req[s].updatedAt)
        r == [req[s] EXCEPT !.wrote = (res.coll # projects)]
    IN /\ req[s].pc = "updateOne"
       /\ projects' = res.coll
       /\ IF ~(res.modifiedCount = 1)
          THEN Respond(s, r, sendThrown(ThrowError(500, "FAILURE",
                                                   "Failed to update status of a  project")))
          ELSE Respond(s, r, sendSuccess(200, "Project Status Update",
                                         "Project status updated successfully", NoData))
       /\ UNCHANGED <<now, nextId, inFlightLimit, database, direct>>

\* -------------------------------------------------------- GET /api/projects
\* String.prototype.startsWith and String.prototype.replace(c, "")
StartsWith(chars, c) == chars # <<>> /\ Head(chars) = c

RECURSIVE ReplaceFirst(_, _)
ReplaceFirst(chars, c) ==
    IF chars = <<>> THEN <<>>
    ELSE IF Head(chars) = c THEN Tail(chars)
    ELSE <<Head(chars)>> \o ReplaceFirst(Tail(chars), c)

allowedSortFields == <<createdAt, startDate>>
DEFAULT_PAGE == 1
DEFAULT_LIMIT == 10

\* Number(x) || d
NumberOr(v, d) == IF Truthy(ToNumber(v)) THEN ToNumber(v).n ELSE d

\* the sort option the service builds from the sort token, or the error
SortOptionOf(sort) ==
    IF Truthy(sort)
    THEN LET order == IF StartsWith(sort.s, "-") THEN 0 - 1 ELSE 1
             field == ReplaceFirst(sort.s, "-")
         IN IF Includes(allowedSortFields, Str(field))
            THEN [ok |-> TRUE, error |-> NoError,
                  sortOption |-> [field |-> field, order |-> order]]
            ELSE [ok |-> FALSE,
                  error |-> ThrowError(400, "Invalid Sort Field",
                                       "Sorting not allowed on this field"),
                  sortOption |-> NoSort]
    ELSE [ok |-> TRUE, error |-> NoError,
          sortOption |-> [field |-> createdAt, order |-> 0 - 1]]

FloorDiv(total, limit) ==
    IF limit > 0 THEN total \div limit ELSE 0 - (total \div (0 - limit))

\* Math.ceil(total / limit) for a limit other than 0
CeilDiv(total, limit) ==
    IF limit > 0 THEN (total + limit - 1) \div limit
    ELSE 0 - (total \div (0 - limit))

\* ProjectController.listProjects and ProjectService.listProjects up to the
\* find call
ListProjectsStart(s, query) ==
    LET page == NumberOr(query.page, DEFAULT_PAGE)
        limit == NumberOr(query.limit, DEFAULT_LIMIT)
        filter == [status |-> IF Truthy(query.status) THEN query.status ELSE Undefined,
                   search |-> IF Truthy(query.search) THEN query.search ELSE Undefined]
        so == SortOptionOf(query.sort)
        r == [IdleReq EXCEPT !.op = "list", !.query = query, !.page = page,
                             !.limit = limit, !.skip = (page - 1) * limit,
                             !.filter = filter, !.sortOption = so.sortOption]
    IN /\ Free(s)
       /\ IF ~so.ok
          THEN Respond(s, r, sendThrown(so.error))
          ELSE Await(s, [r EXCEPT !.pc = "find", !.calls = 1])
       /\ UNCHANGED <<now, projects, nextId, inFlightLimit, database, direct>>

\* find(filter).sort(sortOption).skip(skip).limit(limit).toArray() answers;
\* the store refuses a negative skip, which the controller reports as 500
ListProjectsFind(s) ==
    /\ req[s].pc = "find"
    /\ IF req[s].skip < 0
       THEN Respond(s, req[s], sendError(500, "Internal Server Error",
                                         "skip value must be non-negative"))
       ELSE \E order \in SortedOrders(projects, req[s].filter, req[s].sortOption) :
               Await(s, [req[s] EXCEPT !.pc = "countDocuments", !.calls = @ + 1,
                                       !.items = SkipLimit(order, req[s].skip, req[s].limit)])
    /\ UNCHANGED <<now, projects, nextId, inFlightLimit, database, direct>>

\* countDocuments(filter) answers; the items are mapped and the pagination
\* is computed
ListProjectsCount(s) ==
    LET total == Cardinality(Matching(projects, req[s].filter))
        items == [i \in 1..Len(req[s].items) |->
                     ProjectListItem(req[s].items[i], projects[req[s].items[i]])]
        data == [NoData EXCEPT !.kind = "list", !.items = items,
                    !.pagination = [total |-> total, page |-> req[s].page,
                                    limit |-> req[s].limit,
                                    totalPages |-> CeilDiv(total, req[s].limit)]]
    IN /\ req[s].pc = "countDocuments"
       /\ Respond(s, req[s], sendSuccess(200, "Projects List", "Data fetched successfully", data))
       /\ UNCHANGED <<now, projects, nextId, inFlightLimit, database, direct>>

\* ------------------------------------------------------------- the clock
\* a millisecond passes
Tick ==
    /\ now < MaxClock
    /\ now' = now + 1
    /\ last' = NoResponse
    /\ UNCHANGED <<projects, nextId, req, inFlightLimit, database, direct>>

\* ------------------------------------------------------- specifications
\* the server is listening, the collection is empty, and the clients send
\* one request at a time
Init ==
    /\ now = 0
    /\ projects = << >>
    /\ nextId = 1
    /\ req = [s \in Slots |-> IdleReq]
    /\ last = NoResponse
    /\ inFlightLimit = 1
    /\ database = ConnectedDatabase
    /\ direct = NoDirect

CreateProject == \E s \in Slots :
    \/ \E data \in Payloads : CreateProjectStart(s, data)
    \/ CreateProjectInsert(s)

ProjectDetailsById == \E s \in Slots :
    \/ \E id \in IdInputs : ProjectDetailsByIdStart(s, id)
    \/ ProjectDetailsFindOne(s)

RemoveProjectById == \E s \in Slots :
    \/ \E id \in IdInputs : RemoveProjectByIdStart(s, id)
    \/ RemoveProjectExists(s)
    \/ RemoveProjectDelete(s)

UpdateProjectStatusById == \E s \in Slots :
    \/ \E id \in IdInputs : \E status \in UpdateStatusInputs :
          UpdateProjectStatusByIdStart(s, id, status)
    \/ UpdateProjectStatusExists(s)
    \/ UpdateProjectStatusUpdate(s)

Next ==
    \/ CreateProject
    \/ ProjectDetailsById
    \/ RemoveProjectById
    \/ UpdateProjectStatusById
    \/ Tick

Spec == Init /\ [][Next]_vars

\* ------------------------------------------------ the list specification
\* the documents a listed collection holds: what the validator accepts, with
\* any status a status update may have left
ListDocs ==
    {ValidatorCreateProject(PayloadA, 0).body,
     ValidatorCreateProject(PayloadB, MaxClock).body}

\* the collections listed: the first k generated identifiers, k up to
\* MaxListDocs

ListCollections ==
    UNION {[{GeneratedId(i) : i \in 1..k} -> ListDocs] : k \in 0..MaxListDocs}

InitList ==
    /\ now = MaxClock
    /\ projects \in ListCollections
    /\ nextId = Cardinality(DOMAIN projects) + 1
    /\ req = [s \in Slots |-> IdleReq]
    /\ last = NoResponse
    /\ inFlightLimit = 1
    /\ database = ConnectedDatabase
    /\ direct = NoDirect

ListProjects == \E s \in Slots :
    \/ \E query \in Queries : ListProjectsStart(s, query)
    \/ ListProjectsFind(s)
    \/ ListProjectsCount(s)

NextList == ListProjects

SpecList == InitList /\ [][NextList]_vars

\* ------------------------------------- reads and status updates together
\* a few of the query strings: a plain list, a second page, a filter and a
\* descending sort
FrameQueries ==
    {NoQuery,
     [NoQuery EXCEPT !.page = Str(<<"2">>), !.limit = Str(<<"1">>)],
     [NoQuery EXCEPT !.status = Str(on_hold)],
     [NoQuery EXCEPT !.sort = Str(<<"-">> \o createdAt)]}

\* two documents the validator accepted, under the first two identifiers
FrameCollection ==
    [i \in {GeneratedId(1), GeneratedId(2)} |->
        IF i = GeneratedId(1)
        THEN ValidatorCreateProject(PayloadA, 0).body
        ELSE ValidatorCreateProject(PayloadB, 0).body]

\* the server is listening on a collection that holds validated documents
InitFrame ==
    /\ now = 0
    /\ projects = FrameCollection
    /\ nextId = Cardinality(DOMAIN projects) + 1
    /\ req = [s \in Slots |-> IdleReq]
    /\ last = NoResponse
    /\ inFlightLimit = 1
    /\ database = ConnectedDatabase
    /\ direct = NoDirect

ListProjectsFrame == \E s \in Slots :
    \/ \E query \in FrameQueries : ListProjectsStart(s, query)
    \/ ListProjectsFind(s)
    \/ ListProjectsCount(s)

NextFrame ==
    \/ UpdateProjectStatusById
    \/ ProjectDetailsById
    \/ ListProjectsFrame
    \/ Tick

SpecFrame == InitFrame /\ [][NextFrame]_vars

\* ------------------------------------ removes and status updates in flight
\* the server is listening on a collection of two documents and the clients
\* keep up to two requests in flight
InitConc ==
    /\ now = 0
    /\ projects = FrameCollection
    /\ nextId = Cardinality(DOMAIN projects) + 1
    /\ req = [s \in Slots |-> IdleReq]
    /\ last = NoResponse
    /\ inFlightLimit = 2
    /\ database = ConnectedDatabase
    /\ direct = NoDirect

\* the requests name one of the two projects of the collection
ConcIdInputs == {GeneratedId(1), GeneratedId(2)}
ConcStatusInputs == {Str(active), Str(completed)}

RemoveProjectByIdConc == \E s \in Slots :
    \/ \E id \in ConcIdInputs : RemoveProjectByIdStart(s, id)
    \/ RemoveProjectExists(s)
    \/ RemoveProjectDelete(s)

UpdateProjectStatusByIdConc == \E s \in Slots :
    \/ \E id \in ConcIdInputs : \E status \in ConcStatusInputs :
          UpdateProjectStatusByIdStart(s, id, status)
    \/ UpdateProjectStatusExists(s)
    \/ UpdateProjectStatusUpdate(s)

NextConc ==
    \/ RemoveProjectByIdConc
    \/ UpdateProjectStatusByIdConc
    \/ Tick

SpecConc == InitConc /\ [][NextConc]_vars

\* ------------------------------------------- the validator called directly
\* every combination of the field values the clients send
ValidatePayloads ==
    [clientName : ClientNameInputs \cup {PayloadA.clientName},
     name : NameInputs \cup {PayloadA.name},
     description : DescriptionInputs \cup {Undefined, PayloadB.description},
     status : {Undefined, Num(1), Str(<<"d", "o", "n", "e">>), Str(completed)},
     startDate : StartDateInputs \cup {PayloadB.startDate},
     endDate : EndDateInputs \cup {Undefined, Str(<<"1">>), Str(<<"2">>)}]

InitValidate ==
    /\ now \in 0..MaxClock
    /\ projects = << >>
    /\ nextId = 1
    /\ req = [s \in Slots |-> IdleReq]
    /\ last = NoResponse
    /\ inFlightLimit = 1
    /\ database = ConnectedDatabase
    /\ \E data \in ValidatePayloads :
          direct = [NoDirect EXCEPT !.fn = "ProjectValidator.createProject",
                                    !.payload = data]

\* ProjectValidator.createProject(data) returns or throws
ValidateCreate ==
    LET v == ValidatorCreateProject(direct.payload, now)
    IN /\ direct.fn = "ProjectValidator.createProject"
       /\ ~direct.done
       /\ direct' = [direct EXCEPT !.done = TRUE, !.threw = ~v.ok, !.ok = v.ok,
                                   !.error = v.error, !.body = v.body]
       /\ UNCHANGED <<now, projects, nextId, req, last, inFlightLimit, database>>

NextValidate == ValidateCreate

SpecValidate == InitValidate /\ [][NextValidate]_vars

\* ----------------------------------------- the repository called directly
RepositoryOps ==
    {"getProjectDataById", "getProjectExistanceById", "deleteProjectById",
     "updateProjectStatusById"}

\* a collection of validated documents, and one call of one operation
InitRepo ==
    /\ now = MaxClock
    /\ projects \in ListCollections
    /\ nextId = Cardinality(DOMAIN projects) + 1
    /\ req = [s \in Slots |-> IdleReq]
    /\ last = NoResponse
    /\ inFlightLimit = 1
    /\ database = ConnectedDatabase
    /\ \E fn \in RepositoryOps, id \in IdInputs, status \in STATUS_TYPE :
          direct = [NoDirect EXCEPT
                       !.fn = fn, !.id = id,
                       !.status = IF fn = "updateProjectStatusById"
                                  THEN Str(status) ELSE Undefined]

\* ProjectRepository.getProjectDataById(id)
RepoGetProjectDataById ==
    /\ direct.fn = "getProjectDataById" /\ ~direct.done
    /\ IF NewObjectIdThrows(direct.id)
       THEN direct' = [direct EXCEPT !.done = TRUE, !.threw = TRUE]
       ELSE LET r == GetProjectDataById(projects, direct.id)
            IN direct' = [direct EXCEPT !.done = TRUE, !.ok = r.found, !.body = r.doc]
    /\ UNCHANGED <<now, projects, nextId, req, last, inFlightLimit, database>>

\* ProjectRepository.getProjectExistanceById(id)
RepoGetProjectExistanceById ==
    /\ direct.fn = "getProjectExistanceById" /\ ~direct.done
    /\ direct' = [direct EXCEPT !.done = TRUE,
                                !.ok = GetProjectExistanceById(projects, direct.id)]
    /\ UNCHANGED <<now, projects, nextId, req, last, inFlightLimit, database>>

\* ProjectRepository.deleteProjectById(id)
RepoDeleteProjectById ==
    /\ direct.fn = "deleteProjectById" /\ ~direct.done
    /\ IF NewObjectIdThrows(direct.id)
       THEN /\ direct' = [direct EXCEPT !.done = TRUE, !.threw = TRUE]
            /\ UNCHANGED projects
       ELSE LET r == DeleteOne(projects, NewObjectId(direct.id))
            IN /\ projects' = r.coll
               /\ direct' = [direct EXCEPT !.done = TRUE, !.ok = (r.deletedCount = 1)]
    /\ UNCHANGED <<now, nextId, req, last, inFlightLimit, database>>

\* ProjectRepository.updateProjectStatusById(id, status)
RepoUpdateProjectStatusById ==
    /\ direct.fn = "updateProjectStatusById" /\ ~direct.done
    /\ IF NewObjectIdThrows(direct.id)
       THEN /\ direct' = [direct EXCEPT !.done = TRUE, !.threw = TRUE]
            /\ UNCHANGED projects
       ELSE LET r == UpdateOne(projects, NewObjectId(direct.id), direct.status, DateOf(now))
            IN /\ projects' = r.coll
               /\ direct' = [direct EXCEPT !.done = TRUE, !.ok = (r.modifiedCount = 1)]
    /\ UNCHANGED <<now, nextId, req, last, inFlightLimit, database>>

NextRepo ==
    \/ RepoGetProjectDataById
    \/ RepoGetProjectExistanceById
    \/ RepoDeleteProjectById
    \/ RepoUpdateProjectStatusById

SpecRepo == InitRepo /\ [][NextRepo]_vars

\* -------------------------------------------- the Database specification
\* the process has started and nothing has called Database.connect() yet
InitDb ==
    /\ now = 0
    /\ projects = << >>
    /\ nextId = 1
    /\ req = [s \in Slots |-> IdleReq]
    /\ last = NoResponse
    /\ inFlightLimit = 1
    /\ database = NewDatabase
    /\ direct = NoDirect

NextDb ==
    \E c \in Callers :
        \/ ConnectStart(c)
        \/ ConnectResolve(c)
        \/ ConnectReject(c)
        \/ GetDB(c)
        \/ Close(c)

SpecDb == InitDb /\ [][NextDb]_vars

\* ---------------------------------------------------------------- claims
\* the identifiers among IdInputs that are not 24 hexadecimal characters
MalformedIdInputs ==
    {<<>>, [i \in 1..23 |-> "0"], [i \in 1..24 |-> IF i = 24 THEN "g" ELSE "0"]}

IsStatus(v) == v \in {Str(active), Str(on_hold), Str(completed)}

\* the identifier has been handed out by the store
Issued(oid) == \E k \in 1..(nextId - 1) : GeneratedId(k) = oid

\* C1: after any sequence of create, updateStatus and remove requests, every
\* stored project has a status among active, on_hold, completed
C1_StatusEnumerated ==
    \A i \in DOMAIN projects : IsStatus(projects[i].status)

C1_Witness ==
    /\ last.req.op = "update"
    /\ last.code = 200
    /\ last.req.status = Str(completed)
    /\ \E i \in DOMAIN projects : projects[i].status = Str(completed)
    /\ \E i \in DOMAIN projects : projects[i].status # Str(completed)

EndParsesBeforeStart(p) ==
    /\ NewDate(p.endDate).t = "date"
    /\ NewDate(p.startDate).t = "date"
    /\ NewDate(p.endDate).n < NewDate(p.startDate).n

\* C2: every stored project with an endDate has endDate >= startDate, and a
\* create payload whose endDate parses to a date before its startDate is
\* answered with 400
C2_EndNotBeforeStart ==
    /\ \A i \in DOMAIN projects :
          projects[i].endDate # Undefined =>
              projects[i].endDate.n >= projects[i].startDate.n
    /\ (last.req.op = "create" /\ EndParsesBeforeStart(last.req.payload))
          => last.code = 400

C2_Witness ==
    /\ last.req.op = "create"
    /\ EndParsesBeforeStart(last.req.payload)
    /\ last.message = "End date cannot be before start date"
    /\ \E i \in DOMAIN projects : projects[i].endDate # Undefined

\* C3: getById, remove and updateStatus with a malformed id answer 400, the
\* request makes no store call and never waits for one
C3_MalformedIdRejected ==
    /\ (last.req.op \in {"details", "remove", "update"}
           /\ last.req.id \in MalformedIdInputs)
          => (last.code = 400 /\ last.req.calls = 0 /\ ~last.req.wrote)
    /\ \A s \in Slots :
          (req[s].op \in {"details", "remove", "update"}
              /\ req[s].id \in MalformedIdInputs) => Idle(s)

C3_Witness ==
    /\ last.req.op = "remove"
    /\ last.req.id = [i \in 1..24 |-> IF i = 24 THEN "g" ELSE "0"]
    /\ last.code = 400
    /\ projects # << >>

\* C4: requests being served one at a time, a remove of a stored project
\* answers 200 and the project is gone; a remove of an identifier that is
\* not (or no longer) stored answers 404 and leaves the collection as it was
C4_RemoveTwice ==
    [][\A s \in Slots :
          (req[s].op = "remove" /\ ~Idle(s) /\ req'[s].pc = "idle") =>
              IF NewObjectId(req[s].id) \in DOMAIN projects
              THEN last'.code = 200 /\ NewObjectId(req[s].id) \notin DOMAIN projects'
              ELSE last'.code = 404 /\ projects' = projects]_vars

\* the second remove: 404 for an identifier that was stored and removed
C4_Witness ==
    /\ last.req.op = "remove"
    /\ last.code = 404
    /\ Issued(NewObjectId(last.req.id))
    /\ NewObjectId(last.req.id) \notin DOMAIN projects

\* C5: updateStatus reports the first failing check in the order id (400),
\* status (400), existence (404), and a failing updateStatus leaves the
\* collection unchanged
C5_UpdateCheckOrder ==
    last.req.op = "update" =>
        /\ last.req.id \in MalformedIdInputs =>
              (last.code = 400 /\ last.message \in {"Id is required", "Invalid id"})
        /\ (last.req.id \notin MalformedIdInputs /\ ~IsStatus(last.req.status)) =>
              (last.code = 400 /\ last.message = "Invalid or missing project status")
        /\ (last.req.id \notin MalformedIdInputs /\ IsStatus(last.req.status)
               /\ NewObjectId(last.req.id) \notin DOMAIN projects) =>
              last.code = 404
        /\ last.code # 200 => ~last.req.wrote

C5_Witness ==
    /\ last.req.op = "update"
    /\ last.req.id = [i \in 1..24 |-> IF i = 24 THEN "g" ELSE "0"]
    /\ ~IsStatus(last.req.status)
    /\ last.message = "Invalid id"
    /\ projects # << >>

\* C6 (as claimed): updateStatus of a stored project to any of the three
\* statuses, the one it has included, answers 200 and the stored status is
\* the one passed
C6_AnyTransitionSucceeds ==
    (/\ last.req.op = "update"
     /\ last.req.id \notin MalformedIdInputs
     /\ IsStatus(last.req.status)
     /\ NewObjectId(last.req.id) \in DOMAIN projects)
        => (/\ last.code = 200
            /\ projects[NewObjectId(last.req.id)].status = last.req.status)

\* C7 (as claimed): a successful updateStatus leaves an updatedAt strictly
\* greater than the timestamp the record had before it (its updatedAt, or
\* its createdAt directly after creation)
C7_UpdatedAtStrictlyIncreases ==
    [][\A s \in Slots :
          (req[s].pc = "updateOne" /\ req'[s].pc = "idle" /\ last'.code = 200) =>
              LET doc == projects[NewObjectId(req[s].id)]
                  before == IF doc.updatedAt = Undefined THEN doc.createdAt.n
                            ELSE doc.updatedAt.n
              IN projects'[NewObjectId(req[s].id)].updatedAt.n > before]_vars

NonBlankString(v) == v.t = "string" /\ \E i \in 1..Len(v.s) : v.s[i] # " "

\* the payload breaks one of the rules of validateCreate
CreateViolatesRule(p) ==
    \/ ~NonBlankString(p.clientName)
    \/ ~NonBlankString(p.name)
    \/ p.description # Undefined /\ ~NonBlankString(p.description)
    \/ ~IsStatus(p.status)
    \/ p.startDate \in {Undefined, Null, Str(<<>>)}
    \/ NewDate(p.startDate).t # "date"
    \/ p.endDate # Undefined /\ NewDate(p.endDate).t # "date"
    \/ EndParsesBeforeStart(p)

\* C10: a create request whose payload breaks a rule, and every create
\* request that is not answered 201, is answered 400, makes no store call
\* and leaves the collection as it was
C10_RejectedCreateInsertsNothing ==
    [][(/\ last' # NoResponse
        /\ last'.req.op = "create"
        /\ CreateViolatesRule(last'.req.payload) \/ last'.code # 201)
          => (/\ last'.code = 400
              /\ last'.req.calls = 0
              /\ projects' = projects
              /\ nextId' = nextId)]_vars

C10_Witness ==
    /\ last.req.op = "create"
    /\ last.req.payload.status = Str(<<"d", "o", "n", "e">>)
    /\ last.code = 400
    /\ projects # << >>

\* what follows the optional leading "-" of a sort token
SortRemainder(chars) == IF chars # <<>> /\ chars[1] = "-" THEN Tail(chars) ELSE chars

\* C8 (as claimed): the sort option is a function of the sort token alone:
\* createdAt descending when the token is absent; otherwise a leading "-"
\* selects descending, the remainder must be exactly createdAt or startDate,
\* and any other remainder is answered 400 "Sorting not allowed on this
\* field" with no store call
C8_SortTokenWhitelist ==
    last.req.op = "list" =>
        LET token == last.req.query.sort
        IN IF token \in {Undefined, Str(<<>>)}
           THEN last.req.sortOption = [field |-> createdAt, order |-> 0 - 1]
           ELSE IF SortRemainder(token.s) \in {createdAt, startDate}
           THEN last.req.sortOption =
                   [field |-> SortRemainder(token.s),
                    order |-> IF token.s[1] = "-" THEN 0 - 1 ELSE 1]
           ELSE /\ last.code = 400
                /\ last.message = "Sorting not allowed on this field"
                /\ last.req.calls = 0

\* C9: a list request with page p >= 1 and limit l >= 1 over a collection
\* with `total` documents matching the filter answers
\* min(l, max(0, total - (p-1)*l)) items and the pagination
\* {total, page p, limit l, totalPages ceil(total/l)}
C9_Pagination ==
    (last.req.op = "list" /\ last.code = 200 /\ last.req.page >= 1 /\ last.req.limit >= 1) =>
        LET p == last.req.page
            l == last.req.limit
            total == Cardinality({i \in DOMAIN projects : Matches(projects[i], last.req.filter)})
            rest == IF total - (p - 1) * l > 0 THEN total - (p - 1) * l ELSE 0
        IN /\ Len(last.data.items) = (IF l < rest THEN l ELSE rest)
           /\ last.data.pagination.total = total
           /\ last.data.pagination.page = p
           /\ last.data.pagination.limit = l
           /\ last.data.pagination.totalPages * l >= total
           /\ (last.data.pagination.totalPages - 1) * l < total
           /\ last.data.pagination.totalPages >= 0

\* the last, partial page: total 3, limit 2, page 2 gives 1 item of 2 pages
C9_Witness ==
    /\ last.req.op = "list"
    /\ last.code = 200
    /\ last.req.query.page = Str(<<"2">>)
    /\ last.req.query.limit = Str(<<"2">>)
    /\ last.data.pagination.total = 3
    /\ Len(last.data.items) = 1
    /\ last.data.pagination.totalPages = 2

\* the rules of the validator, numbered in the order clientName, name,
\* description, status, startDate, endDate parses, endDate >= startDate
Parses(v) == NewDate(v).t = "date"

Violates(k, data) ==
    CASE k = 1 -> ~NonBlankString(data.clientName)
      [] k = 2 -> ~NonBlankString(data.name)
      [] k = 3 -> data.description # Undefined /\ ~NonBlankString(data.description)
      [] k = 4 -> ~IsStatus(data.status)
      [] k = 5 -> ~Truthy(data.startDate) \/ ~Parses(data.startDate)
      [] k = 6 -> data.endDate # Undefined /\ ~Parses(data.endDate)
      [] k = 7 -> /\ data.endDate # Undefined
                  /\ Parses(data.endDate) /\ Parses(data.startDate)
                  /\ NewDate(data.endDate).n < NewDate(data.startDate).n

ViolatedRules(data) == {k \in 1..7 : Violates(k, data)}

FirstViolated(data) ==
    CHOOSE k \in ViolatedRules(data) : \A j \in ViolatedRules(data) : k <= j

RuleOfMessage(message) ==
    CASE message = "Client name is required" -> 1
      [] message = "Project name is required" -> 2
      [] message = "Description must be a non-empty string if provided" -> 3
      [] message = "Invalid or missing project status" -> 4
      [] message = "Start date is required" -> 5
      [] message = "Start date must be a valid ISO date" -> 5
      [] message = "End date must be a valid ISO date" -> 6
      [] message = "End date cannot be before start date" -> 7
      [] OTHER -> 0

\* C11: ProjectValidator.createProject is fail-fast: for a payload violating
\* one or more rules it throws the error of the first violated rule in the
\* order clientName, name, description, status, startDate, endDate parses,
\* endDate >= startDate, with code 400 and title VALIDATION_ERROR, and it
\* returns a sanitized record only when no rule is violated
C11_FailFastOrder ==
    (direct.fn = "ProjectValidator.createProject" /\ direct.done) =>
        IF ViolatedRules(direct.payload) = {}
        THEN /\ direct.ok /\ ~direct.threw /\ direct.error = NoError
             /\ direct.body.clientName = Trim(direct.payload.clientName.s)
             /\ direct.body.name = Trim(direct.payload.name.s)
        ELSE /\ ~direct.ok /\ direct.threw /\ direct.body = NoBody
             /\ direct.error.code = 400
             /\ direct.error.title = "VALIDATION_ERROR"
             /\ RuleOfMessage(direct.error.message) = FirstViolated(direct.payload)

\* a payload with a blank name, an unknown status and an unparsable start
\* date was rejected for its name
C11_Witness ==
    /\ direct.fn = "ProjectValidator.createProject" /\ direct.done
    /\ {2, 4, 5} \subseteq ViolatedRules(direct.payload)
    /\ ~Violates(1, direct.payload)
    /\ direct.error.message = "Project name is required"

\* C12: every failure caused by caller-fixable input (a malformed id, a
\* sort field that is not allowed, an invalid status, a rejected payload) is
\* answered with code 400 and title VALIDATION_ERROR
C12_CallerErrorsAreValidationErrors ==
    last.code = 400 => last.title = "VALIDATION_ERROR"

\* C13 as claimed: every repository operation that takes an id, called with a
\* malformed id, returns absent or false and raises no fault
C13_MalformedIdIsNotFound ==
    (direct.fn \in RepositoryOps /\ direct.done /\ direct.id \in MalformedIdInputs) =>
        ~direct.threw /\ ~direct.ok

\* C13: called with a malformed id, getProjectExistanceById returns false
\* and raises no fault, while getProjectDataById, deleteProjectById and
\* updateProjectStatusById raise a fault and return nothing; no operation
\* raises a fault for a well-formed id
C13_MalformedIdExistsFalseOthersThrow ==
    (direct.fn \in RepositoryOps /\ direct.done) =>
        IF direct.id \in MalformedIdInputs
        THEN /\ ~direct.ok
             /\ direct.threw = (direct.fn # "getProjectExistanceById")
        ELSE ~direct.threw

\* deleteProjectById was called with a malformed id and threw
C13_Witness ==
    /\ direct.fn = "deleteProjectById" /\ direct.done
    /\ direct.id \in MalformedIdInputs
    /\ direct.threw

\* C14: once a connect() has completed (db is set), no step constructs a
\* client or starts connecting one, and a further connect() call returns
\* leaving db, client and every other static as they were; getDB() called
\* while no connect() has completed throws and changes nothing
C14_ConnectIdempotentGetDBGuarded ==
    [][/\ database.db # NoHandle =>
            /\ database'.created = database.created
            /\ database'.client = database.client
            /\ \A c \in Callers : database'.awaiting[c] \in {0, database.awaiting[c]}
       /\ (database.db # NoHandle /\ database'.lastCall # database.lastCall
              /\ database'.lastCall.op = "connect"
              /\ database.awaiting[database'.lastCall.by] = 0) =>
            /\ database'.lastCall.outcome = "noop"
            /\ database' = [database EXCEPT !.lastCall = database'.lastCall]
       /\ (database.db = NoHandle /\ database'.lastCall # database.lastCall
              /\ database'.lastCall.op = "getDB") =>
            /\ database'.lastCall.outcome = "threw"
            /\ database' = [database EXCEPT !.lastCall = database'.lastCall]
      ]_vars

\* connect() was called again after a connect() had completed and returned
\* at once, with the one client constructed still the current one
C14_Witness ==
    /\ database.db # NoHandle
    /\ database.lastCall.op = "connect" /\ database.lastCall.outcome = "noop"
    /\ database.created = 1 /\ database.connected = {1}

\* C17 as claimed: at most one client is ever constructed and connected,
\* under every interleaving of connect() calls
C17_AtMostOneClient ==
    Cardinality(database.connected) <= 1

\* the step is one of request s
Stepped(s) == req'[s] # req[s]

\* projects' differs from projects in the status and updatedAt of oid only
OnlyStatusAndUpdatedAtOf(oid) ==
    /\ DOMAIN projects' = DOMAIN projects
    /\ \A i \in DOMAIN projects \ {oid} : projects'[i] = projects[i]
    /\ oid \in DOMAIN projects =>
          /\ projects'[oid].clientName = projects[oid].clientName
          /\ projects'[oid].name = projects[oid].name
          /\ projects'[oid].description = projects[oid].description
          /\ projects'[oid].startDate = projects[oid].startDate
          /\ projects'[oid].endDate = projects[oid].endDate
          /\ projects'[oid].createdAt = projects[oid].createdAt

\* C15: the store call of a successful status update of project id changes
\* only the status and updatedAt of that project, every other field of it
\* and every other project staying as they were, and the set of identifiers
\* too; every step of a list or details request leaves the store unchanged
C15_UpdateFrame ==
    [][\A s \in Slots :
          /\ (Stepped(s) /\ req[s].op = "update" /\ req[s].pc = "updateOne"
                 /\ last'.code = 200) =>
                /\ OnlyStatusAndUpdatedAtOf(NewObjectId(req[s].id))
                /\ projects'[NewObjectId(req[s].id)].status = req[s].status
                /\ nextId' = nextId
          /\ (Stepped(s) /\ {req[s].op, req'[s].op} \cap {"list", "details"} # {}) =>
                /\ projects' = projects
                /\ nextId' = nextId
      ]_vars

\* a status update has succeeded and written the document, one of two or
\* more in the collection
C15_Witness ==
    /\ last.code = 200 /\ last.req.op = "update" /\ last.req.wrote
    /\ Cardinality(DOMAIN projects) >= 2
    /\ projects[NewObjectId(last.req.id)].status = last.req.status

\* C16 as claimed: with requests on the same existing, well-formed id in
\* flight together, a remove ends with 200 or 404 and never with 500, and so
\* does a status update with a valid status whose project a concurrent remove
\* has deleted
C16_ConcurrentNever500 ==
    /\ (last.req.op = "remove" /\ ObjectIdIsValid(last.req.id)) =>
          last.code \in {200, 404}
    /\ (last.req.op = "update" /\ ObjectIdIsValid(last.req.id)
          /\ IsStatus(last.req.status)
          /\ NewObjectId(last.req.id) \notin DOMAIN projects) =>
          last.code \in {200, 404}

\* C18 as claimed: whatever page and limit the client sends, the skip passed
\* to the store is >= 0 and the limit passed to it is >= 1, with
\* skip = (page - 1) * limit for the page and limit of the pagination
C18_SkipAndLimitInRange ==
    \A s \in Slots :
        req[s].pc = "find" =>
            /\ req[s].skip >= 0
            /\ req[s].limit >= 1
            /\ req[s].skip = (req[s].page - 1) * req[s].limit

====
